---- MODULE Spec2Model ----
(***************************************************************************)
(* A model of johnhancock (AWS Signature Version 4 request signing):       *)
(* the case-insensitive Headers map, CanonicalRequest, the credential      *)
(* scope, the signing key and the two signing flows of Credentials.        *)
(*                                                                         *)
(* Representation.  A Python str or bytes value is a sequence of character *)
(* codes (ASCII), so lower(), strip(), sorting, joining and percent        *)
(* encoding are computed character by character.  SHA-256 and HMAC-SHA256  *)
(* cannot be computed here: a digest is the sequence of its input between  *)
(* two bracket codes above the byte range (an injective, symbolic digest), *)
(* except for the digest of b'', which the tests pin down.  A list of      *)
(* 2-tuples is a sequence of <<key, value>> pairs; a dict is a sequence of *)
(* pairs with distinct keys, in insertion order.                           *)
(***************************************************************************)
EXTENDS Integers, Sequences, FiniteSets, TLC

VARIABLES
    request,      \* the CanonicalRequest object: method, parts, query, headers, hashed_payload
    credentials,  \* the Credentials object: key_id, key_secret, scope
    clock,        \* index of the current UTC time, read by CanonicalRequest._datetime
    ctor,         \* the arguments the request was constructed from
    accepted,     \* the bytes of the last payload assignment that was accepted
    op,           \* the name of the last operation
    arg,          \* the argument of the last operation
    ret,          \* what the last operation returned or raised
    pre,          \* the request as it was before the last operation
    calls         \* the signing calls in progress: each one's request and local variables

vars == <<request, credentials, clock, ctor, accepted, op, arg, ret, pre, calls>>

----------------------------------------------------------------------------
(* Bounds of the model *)

\* header inputs hold at most this many headers
MaxHdrs == 2
\* query inputs hold at most this many pairs
MaxQuery == 2
\* the clock advances at most this many times
MaxClock == 2
\* sign_via_query_string is called at most this many times on one request
MaxSigns == 2
\* header values of the canonicalization inputs have at most this many characters
MaxValLen == 5
\* payloads have at most this many bytes
MaxPayloadLen == 2

----------------------------------------------------------------------------
(* String literals of the program, as character codes *)

\* "host"
STR_host == <<104, 111, 115, 116>>
\* "x-amz-date"
STR_x_amz_date == <<120, 45, 97, 109, 122, 45, 100, 97, 116, 101>>
\* "X-Amz-Date"
STR_X_Amz_Date == <<88, 45, 65, 109, 122, 45, 68, 97, 116, 101>>
\* "Authorization"
STR_Authorization == <<65, 117, 116, 104, 111, 114, 105, 122, 97, 116, 105, 111, 110>>
\* "X-Amz-Algorithm"
STR_X_Amz_Algorithm == <<88, 45, 65, 109, 122, 45, 65, 108, 103, 111, 114, 105, 116, 104, 109>>
\* "X-Amz-Credential"
STR_X_Amz_Credential == <<88, 45, 65, 109, 122, 45, 67, 114, 101, 100, 101, 110, 116, 105, 97, 108>>
\* "X-Amz-Expires"
STR_X_Amz_Expires == <<88, 45, 65, 109, 122, 45, 69, 120, 112, 105, 114, 101, 115>>
\* "X-Amz-SignedHeaders"
STR_X_Amz_SignedHeaders == <<88, 45, 65, 109, 122, 45, 83, 105, 103, 110, 101, 100, 72, 101, 97, 100, 101, 114, 115>>
\* "X-Amz-Signature"
STR_X_Amz_Signature == <<88, 45, 65, 109, 122, 45, 83, 105, 103, 110, 97, 116, 117, 114, 101>>
\* "AWS4-HMAC-SHA256"
STR_AWS4_HMAC_SHA256 == <<65, 87, 83, 52, 45, 72, 77, 65, 67, 45, 83, 72, 65, 50, 53, 54>>
\* "aws4_request"
STR_aws4_request == <<97, 119, 115, 52, 95, 114, 101, 113, 117, 101, 115, 116>>
\* "AWS4"
STR_AWS4 == <<65, 87, 83, 52>>
\* "Credential="
STR_Credential_eq == <<67, 114, 101, 100, 101, 110, 116, 105, 97, 108, 61>>
\* "SignedHeaders="
STR_SignedHeaders_eq == <<83, 105, 103, 110, 101, 100, 72, 101, 97, 100, 101, 114, 115, 61>>
\* "Signature="
STR_Signature_eq == <<83, 105, 103, 110, 97, 116, 117, 114, 101, 61>>

\* one-character strings: "\n", " ", "&", ",", "/", ":", ";", "=", "+", "%", "T", "Z", '"'
NL == <<10>>
SP == <<32>>
AMP == <<38>>
COMMA == <<44>>
SLASH == <<47>>
COLON == <<58>>
SEMI == <<59>>
EQUALS == <<61>>
PLUS == <<43>>
PERCENT == <<37>>
CH_T == <<84>>
CH_Z == <<90>>
DQUOTE == <<34>>

----------------------------------------------------------------------------
(* Python built-ins used by the program *)

\* str.lower() on one character and on a string
LowerChar(c) == IF c >= 65 /\ c <= 90 THEN c + 32 ELSE c
lower(s) == [i \in 1..Len(s) |-> LowerChar(s[i])]

\* the characters str.strip() removes
IsSpace(c) == c \in {9, 10, 11, 12, 13, 28, 29, 30, 31, 32, 133, 160}

RECURSIVE lstrip(_)
lstrip(s) == IF s /= <<>> /\ IsSpace(s[1]) THEN lstrip(Tail(s)) ELSE s

RECURSIVE rstrip(_)
rstrip(s) ==
    IF s /= <<>> /\ IsSpace(s[Len(s)]) THEN rstrip(SubSeq(s, 1, Len(s) - 1)) ELSE s

\* str.strip()
strip(s) == rstrip(lstrip(s))

\* the length of the run of spaces (code 32) that starts at position i of s
RECURSIVE SpaceRun(_, _)
SpaceRun(s, i) == IF i <= Len(s) /\ s[i] = 32 THEN 1 + SpaceRun(s, i + 1) ELSE 0

\* re.sub(r' +', ' ', s), scanning from position i: every leftmost longest
\* match of one or more spaces is replaced by one space
RECURSIVE re_sub_spaces_from(_, _)
re_sub_spaces_from(s, i) ==
    IF i > Len(s) THEN <<>>
    ELSE IF s[i] = 32 THEN SP \o re_sub_spaces_from(s, i + SpaceRun(s, i))
    ELSE <<s[i]>> \o re_sub_spaces_from(s, i + 1)

re_sub_spaces(s) == re_sub_spaces_from(s, 1)

\* sep.join(xs)
RECURSIVE join(_, _)
join(sep, xs) ==
    IF xs = <<>> THEN <<>>
    ELSE IF Len(xs) = 1 THEN xs[1]
    ELSE xs[1] \o sep \o join(sep, Tail(xs))

\* a < b on strings: lexicographic by character code
RECURSIVE StrLess(_, _)
StrLess(a, b) ==
    IF b = <<>> THEN FALSE
    ELSE IF a = <<>> THEN TRUE
    ELSE IF a[1] /= b[1] THEN a[1] < b[1]
    ELSE StrLess(Tail(a), Tail(b))

\* one step of a stable sort of strings: x goes after every element <= x
RECURSIVE InsertStr(_, _)
InsertStr(sorted, x) ==
    IF sorted = <<>> THEN <<x>>
    ELSE IF StrLess(x, sorted[1]) THEN <<x>> \o sorted
    ELSE <<sorted[1]>> \o InsertStr(Tail(sorted), x)

\* sorted(xs) for a list of strings
RECURSIVE sorted_strs(_)
sorted_strs(xs) ==
    IF xs = <<>> THEN <<>>
    ELSE InsertStr(sorted_strs(SubSeq(xs, 1, Len(xs) - 1)), xs[Len(xs)])

\* sorted_items with the sort left out: the items in insertion order
sorted_items_unsorted(items) == items

\* one step of a stable sort of (key, value) items by key.lower()
RECURSIVE InsertItem(_, _)
InsertItem(sorted, x) ==
    IF sorted = <<>> THEN <<x>>
    ELSE IF StrLess(lower(x[1]), lower(sorted[1][1])) THEN <<x>> \o sorted
    ELSE <<sorted[1]>> \o InsertItem(Tail(sorted), x)

\* sorted(items, key=lambda x: x[0].lower())
RECURSIVE sorted_items(_)
sorted_items(items) ==
    IF items = <<>> THEN <<>>
    ELSE InsertItem(sorted_items(SubSeq(items, 1, Len(items) - 1)), items[Len(items)])

\* a decimal digit as a character
Digit(d) == 48 + d

\* n written with exactly w decimal digits (strftime's zero-padded fields)
RECURSIVE Pad(_, _)
Pad(n, w) == IF w = 0 THEN <<>> ELSE Pad(n \div 10, w - 1) \o <<Digit(n % 10)>>

\* str(n) for n >= 0
RECURSIVE int_str(_)
int_str(n) == IF n < 10 THEN <<Digit(n)>> ELSE int_str(n \div 10) \o <<Digit(n % 10)>>

\* the characters urllib.parse.quote_plus leaves as they are
IsUnreserved(c) ==
    \/ c >= 48 /\ c <= 57
    \/ c >= 65 /\ c <= 90
    \/ c >= 97 /\ c <= 122
    \/ c \in {45, 46, 95, 126}

\* one hexadecimal digit, upper case
HexDigit(d) == IF d < 10 THEN 48 + d ELSE 55 + d

\* urllib.parse.quote_plus(s)
RECURSIVE quote_plus(_)
quote_plus(s) ==
    IF s = <<>> THEN <<>>
    ELSE (IF IsUnreserved(s[1]) THEN <<s[1]>>
          ELSE IF s[1] = 32 THEN PLUS
          ELSE PERCENT \o <<HexDigit(s[1] \div 16), HexDigit(s[1] % 16)>>)
         \o quote_plus(Tail(s))

\* urllib.parse.urlencode(pairs) for a list of (key, value) pairs
urlencode(pairs) ==
    join(AMP, [i \in 1..Len(pairs) |->
                   quote_plus(pairs[i][1]) \o EQUALS \o quote_plus(pairs[i][2])])

\* dict(pairs)[key]: the value of the last pair with that key
dict_get(pairs, key) ==
    pairs[CHOOSE i \in 1..Len(pairs) :
              /\ pairs[i][1] = key
              /\ \A j \in (i + 1)..Len(pairs) : pairs[j][1] /= key][2]

\* what an operation hands back: a value, None, or an exception
Return(v) == [kind |-> "return", isNone |-> FALSE, value |-> v, exc |-> "", msg |-> ""]
None == [kind |-> "return", isNone |-> TRUE, value |-> <<>>, exc |-> "", msg |-> ""]
Raise(e, m) == [kind |-> "raise", isNone |-> FALSE, value |-> <<>>, exc |-> e, msg |-> m]

----------------------------------------------------------------------------
(* hashlib, hmac, binascii *)

\* hex SHA-256 of b'' (the constant the tests pin down)
SHA256_EMPTY ==
    <<101, 51, 98, 48, 99, 52, 52, 50, 57, 56, 102, 99, 49, 99, 49, 52,
      57, 97, 102, 98, 102, 52, 99, 56, 57, 57, 54, 102, 98, 57, 50, 52,
      50, 55, 97, 101, 52, 49, 101, 52, 54, 52, 57, 98, 57, 51, 52, 99,
      97, 52, 57, 53, 57, 57, 49, 98, 55, 56, 53, 50, 98, 56, 53, 53>>

\* hashlib.sha256(data).hexdigest(): the pinned constant for b'', and a
\* symbolic injective digest otherwise
sha256_hexdigest(data) ==
    IF data = <<>> THEN SHA256_EMPTY ELSE <<256>> \o data \o <<257>>

\* hmac.new(key, value, hashlib.sha256).digest(), symbolic and injective
hmac_sha256(key, value) == <<258>> \o key \o <<259>> \o value \o <<260>>

\* binascii.hexlify(digest).decode('ascii'), symbolic and injective
hexlify(digest) == <<261>> \o digest \o <<262>>

----------------------------------------------------------------------------
(* datetime *)

\* DateTime(Y, m, d, H, M, S)
DateTime(Y, m, d, H, M, S) == [Y |-> Y, m |-> m, d |-> d, H |-> H, M |-> M, S |-> S]

\* dt.strftime('%Y%m%dT%H%M%SZ')
strftime_stamp(dt) ==
    Pad(dt.Y, 4) \o Pad(dt.m, 2) \o Pad(dt.d, 2) \o CH_T
        \o Pad(dt.H, 2) \o Pad(dt.M, 2) \o Pad(dt.S, 2) \o CH_Z

\* dt.strftime('%Y%m%d')
strftime_date(dt) == Pad(dt.Y, 4) \o Pad(dt.m, 2) \o Pad(dt.d, 2)

\* the number a string of decimal digits writes
RECURSIVE ParseInt(_)
ParseInt(s) ==
    IF s = <<>> THEN 0 ELSE 10 * ParseInt(SubSeq(s, 1, Len(s) - 1)) + (s[Len(s)] - 48)

IsDigits(s) == \A i \in 1..Len(s) : s[i] >= 48 /\ s[i] <= 57

\* DateTime.strptime(s, '%Y%m%dT%H%M%SZ'): the parsed datetime, or ValueError
\* when s is not of that form
strptime(s) ==
    IF /\ Len(s) = 16
       /\ IsDigits(SubSeq(s, 1, 8))
       /\ SubSeq(s, 9, 9) = CH_T
       /\ IsDigits(SubSeq(s, 10, 15))
       /\ SubSeq(s, 16, 16) = CH_Z
       /\ ParseInt(SubSeq(s, 5, 6)) \in 1..12
       /\ ParseInt(SubSeq(s, 7, 8)) \in 1..31
       /\ ParseInt(SubSeq(s, 10, 11)) \in 0..23
       /\ ParseInt(SubSeq(s, 12, 13)) \in 0..59
       /\ ParseInt(SubSeq(s, 14, 15)) \in 0..61
    THEN Return(DateTime(ParseInt(SubSeq(s, 1, 4)), ParseInt(SubSeq(s, 5, 6)),
                         ParseInt(SubSeq(s, 7, 8)), ParseInt(SubSeq(s, 10, 11)),
                         ParseInt(SubSeq(s, 12, 13)), ParseInt(SubSeq(s, 14, 15))))
    ELSE Raise("ValueError", "time data does not match format")

----------------------------------------------------------------------------
(* urllib.parse.urlsplit, for a uri of ASCII characters with no bracket *)

\* s.find(c) from position start on: the first position of the character c,
\* or 0 when there is none
find(s, c, start) ==
    IF \E i \in start..Len(s) : s[i] = c
    THEN CHOOSE i \in start..Len(s) : s[i] = c /\ \A j \in start..(i - 1) : s[j] /= c
    ELSE 0

\* url.lstrip(_WHATWG_C0_CONTROL_OR_SPACE)
RECURSIVE lstrip_c0(_)
lstrip_c0(s) == IF s /= <<>> /\ s[1] <= 32 THEN lstrip_c0(Tail(s)) ELSE s

\* url.replace(b, "") for the tab, the line feed and the carriage return
RECURSIVE remove_unsafe(_)
remove_unsafe(s) ==
    IF s = <<>> THEN <<>>
    ELSE (IF s[1] \in {9, 10, 13} THEN <<>> ELSE <<s[1]>>) \o remove_unsafe(Tail(s))

\* an ASCII letter
IsAlpha(c) == (c >= 65 /\ c <= 90) \/ (c >= 97 /\ c <= 122)

\* a character of urllib.parse.scheme_chars
IsSchemeChar(c) == IsAlpha(c) \/ (c >= 48 /\ c <= 57) \/ c \in {43, 45, 46}

\* _splitnetloc(url, 2): the position of the first of / ? # from the third
\* character on, or the position after the end
netloc_end(url) ==
    LET found == {i \in 3..Len(url) : url[i] \in {47, 63, 35}}
    IN  IF found = {} THEN Len(url) + 1
        ELSE CHOOSE i \in found : \A j \in found : i <= j

\* urlsplit(uri): the five components scheme, netloc, path, query, fragment
urlsplit(uri) ==
    LET url == remove_unsafe(lstrip_c0(uri))
        i == find(url, 58, 1)
        hasScheme == /\ i > 1
                     /\ IsAlpha(url[1])
                     /\ \A k \in 1..(i - 1) : IsSchemeChar(url[k])
        u1 == IF hasScheme THEN SubSeq(url, i + 1, Len(url)) ELSE url
        hasNetloc == Len(u1) >= 2 /\ SubSeq(u1, 1, 2) = SLASH \o SLASH
        u2 == IF hasNetloc THEN SubSeq(u1, netloc_end(u1), Len(u1)) ELSE u1
        f == find(u2, 35, 1)
        u3 == IF f > 0 THEN SubSeq(u2, 1, f - 1) ELSE u2
        q == find(u3, 63, 1)
    IN  [scheme   |-> IF hasScheme THEN lower(SubSeq(url, 1, i - 1)) ELSE <<>>,
         netloc   |-> IF hasNetloc THEN SubSeq(u1, 3, netloc_end(u1) - 1) ELSE <<>>,
         path     |-> IF q > 0 THEN SubSeq(u3, 1, q - 1) ELSE u3,
         query    |-> IF q > 0 THEN SubSeq(u3, q + 1, Len(u3)) ELSE <<>>,
         fragment |-> IF f > 0 THEN SubSeq(u2, f + 1, Len(u2)) ELSE <<>>]

----------------------------------------------------------------------------
(* class Headers: a dict keyed by lower-cased name, in insertion order *)

\* key in headers  (Mapping.__contains__ through Headers.__getitem__)
Headers_contains(map, key) == \E i \in 1..Len(map) : map[i][1] = lower(key)

\* Headers.__getitem__
Headers_getitem(map, key) ==
    map[CHOOSE i \in 1..Len(map) : map[i][1] = lower(key)][2]

\* Headers.__setitem__: an existing key keeps its place and takes the new
\* value, a new key is appended
Headers_setitem(map, key, value) ==
    IF \E i \in 1..Len(map) : map[i][1] = lower(key)
    THEN [i \in 1..Len(map) |->
              IF map[i][1] = lower(key) THEN <<lower(key), value>> ELSE map[i]]
    ELSE Append(map, <<lower(key), value>>)

\* Headers.__init__: the items of init are set one by one, in order
RECURSIVE Headers_init(_)
Headers_init(init) ==
    IF init = <<>> THEN <<>>
    ELSE Headers_setitem(Headers_init(SubSeq(init, 1, Len(init) - 1)),
                         init[Len(init)][1], init[Len(init)][2])

\* Headers.__iter__ / keys(): the keys, lower-cased
Headers_keys(map) == [i \in 1..Len(map) |-> lower(map[i][1])]

\* headers.items(): (key, headers[key]) for every key of the iteration
Headers_items(map) ==
    [i \in 1..Len(map) |-> <<lower(map[i][1]), Headers_getitem(map, lower(map[i][1]))>>]

----------------------------------------------------------------------------
(* class CanonicalRequest *)

\* payload_setter that encodes a text value instead of refusing it
payload_setter_encoding(req, value) ==
    [request |-> [req EXCEPT !.hashed_payload = sha256_hexdigest(value.data)],
     ret |-> None]

\* the payload setter: the digest of a bytes value; hashlib refuses a str
payload_setter(req, value) ==
    IF value.type = "bytes"
    THEN [request |-> [req EXCEPT !.hashed_payload = sha256_hexdigest(value.data)],
          ret |-> None]
    ELSE [request |-> req,
          ret |-> Raise("TypeError", "Strings must be encoded before hashing")]

\* the payload getter
payload_getter(req) ==
    [request |-> req, ret |-> Raise("NotImplementedError", "Cannot directly access payload.")]

\* CanonicalRequest_init that looks for 'host' among the names as they were
\* given, in their own letter case
CanonicalRequest_init_rawkey(method, parts, query, headers, payload) ==
    LET h0 == Headers_init(headers)
        r0 == [method |-> method, parts |-> parts, query |-> query,
               headers |-> h0, hashed_payload |-> <<>>]
        p == payload_setter(r0, payload)
        r1 == p.request
    IN
    IF p.ret.kind = "raise" THEN p
    ELSE [request |->
              IF parts.netloc /= <<>> /\ ~(\E i \in 1..Len(headers) : headers[i][1] = STR_host)
              THEN [r1 EXCEPT !.headers = Headers_setitem(r1.headers, STR_host, parts.netloc)]
              ELSE r1,
          ret |-> None]

\* CanonicalRequest.__init__ for a uri already split into (netloc, path), a
\* query given as a list of pairs and headers given as a dict
CanonicalRequest_init(method, parts, query, headers, payload) ==
    LET h0 == Headers_init(headers)
        r0 == [method |-> method, parts |-> parts, query |-> query,
               headers |-> h0, hashed_payload |-> <<>>]
        p == payload_setter(r0, payload)
        r1 == p.request
    IN
    IF p.ret.kind = "raise" THEN p
    ELSE [request |->
              IF parts.netloc /= <<>> /\ ~Headers_contains(r1.headers, STR_host)
              THEN [r1 EXCEPT !.headers = Headers_setitem(r1.headers, STR_host, parts.netloc)]
              ELSE r1,
          ret |-> None]

\* canonical_value that collapses spaces in quoted values too
canonical_value_unquoted(v) == re_sub_spaces(strip(v))

\* one header value as canonical_headers writes it
canonical_value(v) ==
    LET value == strip(v)
    IN  IF ~(Len(value) >= 2 /\ value[1] = 34 /\ value[Len(value)] = 34)
        THEN re_sub_spaces(value)
        ELSE value

\* the canonical_headers property
canonical_headers(req) ==
    LET items == sorted_items(Headers_items(req.headers))
        lines == [i \in 1..Len(items) |->
                      lower(items[i][1]) \o COLON \o canonical_value(items[i][2])]
    IN  join(NL, lines) \o NL

\* the signed_headers property
signed_headers(req) == join(SEMI, sorted_strs(Headers_keys(req.headers)))

\* CanonicalRequest.__str__
CanonicalRequest_str(req) ==
    join(NL, << req.method,
                req.parts.path,
                urlencode(req.query),
                canonical_headers(req),
                signed_headers(req),
                req.hashed_payload >>)

\* the hashed property
hashed(req) == sha256_hexdigest(CanonicalRequest_str(req))

\* True iff some query pair has the key X-Amz-Date
has_date_param(req) == \E i \in 1..Len(req.query) : req.query[i][1] = STR_X_Amz_Date

\* datetime that looks at the query before the headers
datetime_query_first(req) ==
    IF has_date_param(req)
    THEN strptime(dict_get(req.query, STR_X_Amz_Date))
    ELSE IF Headers_contains(req.headers, STR_x_amz_date)
    THEN strptime(Headers_getitem(req.headers, STR_x_amz_date))
    ELSE Raise("ValueError", "No datetime is set in the request.")

\* the datetime property
datetime(req) ==
    IF Headers_contains(req.headers, STR_x_amz_date)
    THEN strptime(Headers_getitem(req.headers, STR_x_amz_date))
    ELSE IF has_date_param(req)
    THEN strptime(dict_get(req.query, STR_X_Amz_Date))
    ELSE Raise("ValueError", "No datetime is set in the request.")

\* set_date_header without the test for an existing header
set_date_header_always(req, now) ==
    [request |-> [req EXCEPT !.headers =
                      Headers_setitem(req.headers, STR_x_amz_date, strftime_stamp(now))],
     ret |-> Return(strftime_stamp(now))]

\* CanonicalRequest.set_date_header, with now the value of _datetime()
set_date_header(req, now) ==
    IF ~Headers_contains(req.headers, STR_x_amz_date)
    THEN [request |-> [req EXCEPT !.headers =
                           Headers_setitem(req.headers, STR_x_amz_date, strftime_stamp(now))],
          ret |-> Return(strftime_stamp(now))]
    ELSE [request |-> req, ret |-> None]

\* set_date_param without the test for an existing parameter
set_date_param_always(req, now) ==
    [request |-> [req EXCEPT !.query =
                      Append(req.query, <<STR_X_Amz_Date, strftime_stamp(now)>>)],
     ret |-> Return(strftime_stamp(now))]

\* CanonicalRequest.set_date_param, with now the value of _datetime()
set_date_param(req, now) ==
    IF ~has_date_param(req)
    THEN [request |-> [req EXCEPT !.query =
                           Append(req.query, <<STR_X_Amz_Date, strftime_stamp(now)>>)],
          ret |-> Return(strftime_stamp(now))]
    ELSE [request |-> req, ret |-> None]

----------------------------------------------------------------------------
(* CredentialScope, DatedCredentialScope, SigningKey, generate_string_to_sign *)

\* CredentialScope.date
CredentialScope_date(scope, date) ==
    [region |-> scope.region, service |-> scope.service, date |-> date]

\* DatedCredentialScope.__str__
DatedCredentialScope_str(scope) ==
    join(SLASH, <<strftime_date(scope.date), scope.region, scope.service, STR_aws4_request>>)

\* SigningKey._sign
SigningKey_sign_raw(key, value) == hmac_sha256(key, value)

\* SigningKey.__init__: the key computed from the secret and the dated scope
SigningKey(secret, scope) ==
    LET date == strftime_date(scope.date)
        signed_date == SigningKey_sign_raw(STR_AWS4 \o secret, date)
        signed_region == SigningKey_sign_raw(signed_date, scope.region)
        signed_service == SigningKey_sign_raw(signed_region, scope.service)
    IN  SigningKey_sign_raw(signed_service, STR_aws4_request)

\* SigningKey.sign
SigningKey_sign(key, string) == hexlify(SigningKey_sign_raw(key, string))

\* generate_string_to_sign for a dated scope
generate_string_to_sign(date, scope, req) ==
    join(NL, <<STR_AWS4_HMAC_SHA256, strftime_stamp(date),
               DatedCredentialScope_str(scope), hashed(req)>>)

----------------------------------------------------------------------------
(* class Credentials *)

\* Credentials.__init__
Credentials_init(key_id, key_secret, region, service) ==
    [key_id |-> key_id, key_secret |-> key_secret,
     scope |-> [region |-> region, service |-> service]]

\* Credentials.scope that keeps the date of the first call that read one
Credentials_scope_kept(c, dt) ==
    CredentialScope_date(c.scope,
        IF calls /= <<>> /\ ~calls[1].datetime.isNone THEN calls[1].datetime.value ELSE dt)

\* Credentials.scope
Credentials_scope(c, dt) == CredentialScope_date(c.scope, dt)

\* Credentials.signing_key
Credentials_signing_key(c, dt) == SigningKey(c.key_secret, Credentials_scope(c, dt))

\* the Authorization header value sign_via_headers builds
authorization(c, scope, req, signature) ==
    STR_AWS4_HMAC_SHA256 \o SP \o
    join(COMMA \o SP,
         << STR_Credential_eq \o c.key_id \o SLASH \o DatedCredentialScope_str(scope),
            STR_SignedHeaders_eq \o signed_headers(req),
            STR_Signature_eq \o signature >>)

\* Credentials.sign_via_headers
sign_via_headers(c, req, now) ==
    LET s == set_date_header(req, now)
        req1 == s.request
        headers0 == IF ~s.ret.isNone THEN << <<STR_X_Amz_Date, s.ret.value>> >> ELSE <<>>
        dt == datetime(req1)
    IN  IF dt.kind = "raise" THEN [request |-> req1, ret |-> dt]
        ELSE LET scope == Credentials_scope(c, dt.value)
                 key == Credentials_signing_key(c, dt.value)
                 to_sign == generate_string_to_sign(dt.value, scope, req1)
                 auth == authorization(c, scope, req1, SigningKey_sign(key, to_sign))
             IN  [request |-> req1,
                  ret |-> Return(Append(headers0, <<STR_Authorization, auth>>))]

\* the four parameters sign_via_query_string adds besides the date
to_append(c, scope, req, expires) ==
    << <<STR_X_Amz_Algorithm, STR_AWS4_HMAC_SHA256>>,
       <<STR_X_Amz_Credential, c.key_id \o SLASH \o DatedCredentialScope_str(scope)>>,
       <<STR_X_Amz_Expires, int_str(expires)>>,
       <<STR_X_Amz_SignedHeaders, signed_headers(req)>> >>

\* request.query[:-1] + to_append[:2] + request.query[-1:] + to_append[2:]
augmented_query(query, ta) ==
    SubSeq(query, 1, Len(query) - 1) \o SubSeq(ta, 1, 2)
        \o SubSeq(query, Len(query), Len(query)) \o SubSeq(ta, 3, Len(ta))

\* Credentials.sign_via_query_string
sign_via_query_string(c, req, expires, now) ==
    LET s == set_date_param(req, now)
        req1 == s.request
        params0 == IF ~s.ret.isNone THEN << <<STR_X_Amz_Date, s.ret.value>> >> ELSE <<>>
        dt == datetime(req1)
    IN  IF dt.kind = "raise" THEN [request |-> req1, ret |-> dt]
        ELSE LET scope == Credentials_scope(c, dt.value)
                 key == Credentials_signing_key(c, dt.value)
                 ta == to_append(c, scope, req1, expires)
                 req2 == [req1 EXCEPT !.query = augmented_query(req1.query, ta)]
                 params1 == SubSeq(ta, 1, 2) \o params0 \o SubSeq(ta, 3, Len(ta))
                 to_sign == generate_string_to_sign(dt.value, scope, req2)
             IN  [request |-> req2,
                  ret |-> Return(Append(params1,
                                        <<STR_X_Amz_Signature, SigningKey_sign(key, to_sign)>>))]

----------------------------------------------------------------------------
(* The inputs the model draws from *)

\* "GET"
IN_method == <<71, 69, 84>>
\* "/"
IN_path == <<47>>
\* "h.com"
IN_netloc == <<104, 46, 99, 111, 109>>
\* "Host"
IN_Host == <<72, 111, 115, 116>>
\* "x.org"
IN_hostvalue == <<120, 46, 111, 114, 103>>
\* "Action"
IN_Action == <<65, 99, 116, 105, 111, 110>>
\* "a b"
IN_a_b == <<97, 32, 98>>
\* "foo"
IN_foo == <<102, 111, 111>>
\* "AKID"
IN_key_id == <<65, 75, 73, 68>>
\* "sk"
IN_key_secret == <<115, 107>>
\* "us-east-1"
IN_region == <<117, 115, 45, 101, 97, 115, 116, 45, 49>>
\* "iam"
IN_service == <<105, 97, 109>>
\* "20150830T123600Z"
STAMP_A == <<50, 48, 49, 53, 48, 56, 51, 48, 84, 49, 50, 51, 54, 48, 48, 90>>
\* "20150829T235959Z"
STAMP_B == <<50, 48, 49, 53, 48, 56, 50, 57, 84, 50, 51, 53, 57, 53, 57, 90>>
\* "20150828T000000Z"
STAMP_C == <<50, 48, 49, 53, 48, 56, 50, 56, 84, 48, 48, 48, 48, 48, 48, 90>>

\* the sequences of at most n distinct elements of S
SeqsNoDup(S, n) ==
    {s \in UNION {[1..k -> S] : k \in 0..n} :
        \A i, j \in 1..Len(s) : i /= j => s[i] /= s[j]}

\* the header dicts a request is built from: a dict has no key twice, but
\* may hold one name in two letter cases.  The timestamps given in headers
\* and query are well-formed YYYYMMDDTHHMMSSZ stamps, of three different days
HeaderPool ==
    { <<IN_Host, IN_hostvalue>>, <<STR_X_Amz_Date, STAMP_A>>, <<STR_x_amz_date, STAMP_B>> }

HeaderInputs ==
    {h \in SeqsNoDup(HeaderPool, MaxHdrs) :
        \A i, j \in 1..Len(h) : i /= j => h[i][1] /= h[j][1]}

\* the query lists a request is built from: X-Amz-Date may be absent, first,
\* last, or given twice with two values
QueryPool ==
    { <<IN_Action, IN_a_b>>, <<STR_X_Amz_Date, STAMP_A>>, <<STR_X_Amz_Date, STAMP_C>> }

QueryInputs == SeqsNoDup(QueryPool, MaxQuery)

Bytes(data) == [type |-> "bytes", data |-> data]
Text(data) == [type |-> "str", data |-> data]

\* the strings of at most n characters of the alphabet A
Strings(A, n) == UNION {[1..k -> A] : k \in 0..n}

\* payload values: the bytes values of at most MaxPayloadLen bytes among
\* 0x00, 'f' and 0xff, and b'foo'; and the text values '' and 'foo'
PayloadBytes == {Bytes(d) : d \in Strings({0, 102, 255}, MaxPayloadLen) \cup {IN_foo}}
PayloadInputs == PayloadBytes \cup {Text(<<>>), Text(IN_foo)}

\* the value of CanonicalRequest._datetime() (DateTime.utcnow()) at clock c:
\* one second later at every tick, and the next day at every second tick
Now(c) == DateTime(2015, 8, 30 + (c \div 2), 12, 36, c)

\* "Ab"
IN_Ab == <<65, 98>>
\* "Mh"
IN_Mh == <<77, 104>>
\* "a" and "b"
IN_a == <<97>>
IN_b == <<98>>

\* header dicts that give names in several orders and letter cases: Host,
\* host and Ab, each with the value a or b
OrderCaseInputs ==
    {h \in SeqsNoDup({IN_Host, STR_host, IN_Ab} \X {IN_a, IN_b}, MaxHdrs) :
        \A i, j \in 1..Len(h) : i /= j => h[i][1] /= h[j][1]}

\* header dicts of one header Mh, whose value is any string of at most
\* MaxValLen characters among the space, the tab, the letter a and the double quote
ValueInputs == { << <<IN_Mh, v>> >> : v \in Strings({32, 9, 97, 34}, MaxValLen) }

\* the uris a request is built from: with and without a scheme, a host, a
\* path, a query, a fragment and a port
\* "/"
URI_root == <<47>>
\* "https://h.com/"
URI_https_host == <<104, 116, 116, 112, 115, 58, 47, 47, 104, 46, 99, 111, 109, 47>>
\* "//h.com"
URI_host_only == <<47, 47, 104, 46, 99, 111, 109>>
\* "h.com/"
URI_no_slashes == <<104, 46, 99, 111, 109, 47>>
\* "https:/h.com"
URI_one_slash == <<104, 116, 116, 112, 115, 58, 47, 104, 46, 99, 111, 109>>
\* "https://h.com?a"
URI_host_query == <<104, 116, 116, 112, 115, 58, 47, 47, 104, 46, 99, 111, 109, 63, 97>>
\* "https://"
URI_empty_host == <<104, 116, 116, 112, 115, 58, 47, 47>>
\* "h.com:80/"
URI_colon_no_host == <<104, 46, 99, 111, 109, 58, 56, 48, 47>>
\* "HTTPS://H.com:80/p"
URI_upper_port == <<72, 84, 84, 80, 83, 58, 47, 47, 72, 46, 99, 111, 109, 58, 56, 48, 47, 112>>
\* " //h.com#f"
URI_space_fragment == <<32, 47, 47, 104, 46, 99, 111, 109, 35, 102>>

UriInputs ==
    { URI_root,
      URI_https_host,
      URI_host_only,
      URI_no_slashes,
      URI_one_slash,
      URI_host_query,
      URI_empty_host,
      URI_colon_no_host,
      URI_upper_port,
      URI_space_fragment }

\* the header dicts a request is built from when its host header is looked
\* at: no host header, one in any letter case, one in two letter cases, one
\* with an empty value
HostHeaderInputs ==
    OrderCaseInputs \cup HeaderInputs \cup { << <<STR_host, <<>> >> >> }

\* the threads that sign, each with a request object of its own
Threads == {1, 2}

\* the (query, headers) the requests signed side by side are built from: no
\* timestamp, one in a header, one in the query
ConcInputs ==
    { << <<>>, <<>> >>,
      << <<>>, << <<STR_x_amz_date, STAMP_B>> >> >>,
      << << <<IN_Action, IN_a_b>>, <<STR_X_Amz_Date, STAMP_C>> >>, <<>> >> }

\* how many times sign_via_query_string has augmented the query
NumSigned(req) ==
    Cardinality({i \in 1..Len(req.query) : req.query[i][1] = STR_X_Amz_Algorithm})

----------------------------------------------------------------------------
(* A signing call, statement by statement.  A call is its request object, its
   arguments and its local variables; pc is the statement it is to run next *)

\* a call of sign_via_headers (kind "headers") or sign_via_query_string (kind
\* "query") that has not begun: no local variable is assigned
call_begin(kind, req, expires) ==
    [kind |-> kind, request |-> req, expires |-> expires, pc |-> "stamp", at |-> 0,
     datetime_str |-> None, datetime |-> None, scope |-> None, key |-> None,
     ret |-> None]

\* datetime_str = request.set_date_header()  /  request.set_date_param()
call_stamp(call, at) ==
    LET s == IF call.kind = "headers" THEN set_date_header(call.request, Now(at))
             ELSE set_date_param(call.request, Now(at))
    IN  [call EXCEPT !.request = s.request, !.datetime_str = s.ret, !.at = at,
                     !.pc = "datetime"]

\* datetime = request.datetime
call_datetime(call) ==
    LET dt == datetime(call.request)
    IN  IF dt.kind = "raise" THEN [call EXCEPT !.ret = dt, !.pc = "done"]
        ELSE [call EXCEPT !.datetime = dt, !.pc = "scope"]

\* scope = self.scope(datetime)
call_scope(c, call) ==
    [call EXCEPT !.scope = Return(Credentials_scope(c, call.datetime.value)), !.pc = "key"]

\* key = self.signing_key(datetime)
call_key(c, call) ==
    [call EXCEPT !.key = Return(Credentials_signing_key(c, call.datetime.value)),
                 !.pc = "sign"]

\* the rest of sign_via_headers: the string to sign, the Authorization header
\* and the list returned
call_sign_headers(c, call) ==
    LET headers0 == IF ~call.datetime_str.isNone
                    THEN << <<STR_X_Amz_Date, call.datetime_str.value>> >> ELSE <<>>
        to_sign == generate_string_to_sign(call.datetime.value, call.scope.value, call.request)
        auth == authorization(c, call.scope.value, call.request,
                              SigningKey_sign(call.key.value, to_sign))
    IN  [call EXCEPT !.ret = Return(Append(headers0, <<STR_Authorization, auth>>)),
                     !.pc = "done"]

\* the rest of sign_via_query_string: the query is augmented, then signed
call_sign_query(c, call) ==
    LET params0 == IF ~call.datetime_str.isNone
                   THEN << <<STR_X_Amz_Date, call.datetime_str.value>> >> ELSE <<>>
        ta == to_append(c, call.scope.value, call.request, call.expires)
        req2 == [call.request EXCEPT !.query = augmented_query(call.request.query, ta)]
        params1 == SubSeq(ta, 1, 2) \o params0 \o SubSeq(ta, 3, Len(ta))
        to_sign == generate_string_to_sign(call.datetime.value, call.scope.value, req2)
    IN  [call EXCEPT !.request = req2,
                     !.ret = Return(Append(params1,
                                 <<STR_X_Amz_Signature, SigningKey_sign(call.key.value, to_sign)>>)),
                     !.pc = "done"]

----------------------------------------------------------------------------
(* The request and the credentials after construction, and the operations *)

\* the state after CanonicalRequest(method, uri, query, headers, payload)
\* and Credentials(key_id, key_secret, region, service)
Constructed(netloc, q, h, p) ==
    LET parts == [netloc |-> netloc, path |-> IN_path]
        made == CanonicalRequest_init(IN_method, parts, q, h, p)
    IN  /\ ctor = [method |-> IN_method, parts |-> parts, query |-> q,
                   headers |-> h, payload |-> p]
        /\ request = made.request
        /\ credentials = Credentials_init(IN_key_id, IN_key_secret, IN_region, IN_service)
        /\ clock = 0
        /\ accepted = p.data
        /\ op = "init"
        /\ arg = <<>>
        /\ ret = made.ret
        /\ pre = made.request
        /\ calls = <<>>

\* the state after CanonicalRequest(method, uri, headers=h) and
\* Credentials(key_id, key_secret, region, service)
ConstructedFrom(uri, h) ==
    LET parts == urlsplit(uri)
        made == CanonicalRequest_init(IN_method, parts, <<>>, h, Bytes(<<>>))
    IN  /\ ctor = [method |-> IN_method, uri |-> uri, parts |-> parts, query |-> <<>>,
                   headers |-> h, payload |-> Bytes(<<>>)]
        /\ request = made.request
        /\ credentials = Credentials_init(IN_key_id, IN_key_secret, IN_region, IN_service)
        /\ clock = 0
        /\ accepted = <<>>
        /\ op = "init"
        /\ arg = <<>>
        /\ ret = made.ret
        /\ pre = made.request
        /\ calls = <<>>

\* the outcome r of an operation named name, called with argument a
Outcome(name, a, r) ==
    /\ request' = r.request
    /\ ret' = r.ret
    /\ op' = name
    /\ arg' = a
    /\ pre' = request
    /\ UNCHANGED <<clock, ctor, calls>>

\* time passes
Tick ==
    /\ clock < MaxClock
    /\ clock' = clock + 1
    /\ UNCHANGED <<request, credentials, ctor, accepted, op, arg, ret, pre, calls>>

SignViaHeaders ==
    /\ Outcome("sign_via_headers", <<>>, sign_via_headers(credentials, request, Now(clock)))
    /\ UNCHANGED <<credentials, accepted>>

SignViaQueryString ==
    /\ NumSigned(request) < MaxSigns
    /\ \E expires \in {60} :
          Outcome("sign_via_query_string", expires,
                  sign_via_query_string(credentials, request, expires, Now(clock)))
    /\ UNCHANGED <<credentials, accepted>>

SetDateHeader ==
    /\ Outcome("set_date_header", <<>>, set_date_header(request, Now(clock)))
    /\ UNCHANGED <<credentials, accepted>>

SetDateParam ==
    /\ Outcome("set_date_param", <<>>, set_date_param(request, Now(clock)))
    /\ UNCHANGED <<credentials, accepted>>

ReadDatetime ==
    /\ Outcome("datetime", <<>>, [request |-> request, ret |-> datetime(request)])
    /\ UNCHANGED <<credentials, accepted>>

SetPayload ==
    \E v \in PayloadInputs :
        LET r == payload_setter(request, v)
        IN  /\ Outcome("payload.setter", v, r)
            /\ accepted' = IF r.ret.kind = "return" THEN v.data ELSE accepted
            /\ UNCHANGED credentials

ReadPayload ==
    /\ Outcome("payload.getter", <<>>, payload_getter(request))
    /\ UNCHANGED <<credentials, accepted>>

ReadCanonicalHeaders ==
    /\ Outcome("canonical_headers", <<>>,
               [request |-> request, ret |-> Return(canonical_headers(request))])
    /\ UNCHANGED <<credentials, accepted>>

ReadSignedHeaders ==
    /\ Outcome("signed_headers", <<>>,
               [request |-> request, ret |-> Return(signed_headers(request))])
    /\ UNCHANGED <<credentials, accepted>>

ReadStr ==
    /\ Outcome("__str__", <<>>,
               [request |-> request, ret |-> Return(CanonicalRequest_str(request))])
    /\ UNCHANGED <<credentials, accepted>>

ReadHashed ==
    /\ Outcome("hashed", <<>>, [request |-> request, ret |-> Return(hashed(request))])
    /\ UNCHANGED <<credentials, accepted>>

\* thread t runs the next statement of its call, which becomes the call next
Statement(name, t, next) ==
    /\ calls' = [calls EXCEPT ![t] = next]
    /\ request' = next.request
    /\ pre' = calls[t].request
    /\ ret' = next.ret
    /\ op' = name
    /\ arg' = t
    /\ UNCHANGED <<credentials, clock, ctor, accepted>>

CallStamp ==
    \E t \in Threads :
        /\ calls[t].pc = "stamp"
        /\ Statement("stamp", t, call_stamp(calls[t], clock))

CallDatetime ==
    \E t \in Threads :
        /\ calls[t].pc = "datetime"
        /\ Statement("datetime", t, call_datetime(calls[t]))

CallScope ==
    \E t \in Threads :
        /\ calls[t].pc = "scope"
        /\ Statement("scope", t, call_scope(credentials, calls[t]))

CallKey ==
    \E t \in Threads :
        /\ calls[t].pc = "key"
        /\ Statement("key", t, call_key(credentials, calls[t]))

CallSignHeaders ==
    \E t \in Threads :
        /\ calls[t].pc = "sign"
        /\ calls[t].kind = "headers"
        /\ Statement("sign_via_headers", t, call_sign_headers(credentials, calls[t]))

CallSignQuery ==
    \E t \in Threads :
        /\ calls[t].pc = "sign"
        /\ calls[t].kind = "query"
        /\ Statement("sign_via_query_string", t, call_sign_query(credentials, calls[t]))

(* Signing and timestamps: a request built from any query and header input,
   with an empty payload, under a clock that advances *)
Init ==
    \E q \in QueryInputs, h \in HeaderInputs :
        Constructed(IN_netloc, q, h, Bytes(<<>>))

Next ==
    \/ Tick
    \/ SignViaHeaders
    \/ SignViaQueryString
    \/ SetDateHeader
    \/ SetDateParam
    \/ ReadDatetime

Spec == Init /\ [][Next]_vars

(* The payload: a request built with any bytes payload, then assigned to and
   read *)
InitPayload ==
    \E p \in PayloadBytes :
        Constructed(<<>>, <<>>, <<>>, p)

NextPayload ==
    \/ SetPayload
    \/ ReadPayload

SpecPayload == InitPayload /\ [][NextPayload]_vars

(* Canonicalization: a request built from any header dict or any query list,
   whose canonical texts are then read *)
InitCanon ==
    \/ \E h \in OrderCaseInputs \cup ValueInputs :
          Constructed(<<>>, <<>>, h, Bytes(<<>>))
    \/ \E q \in QueryInputs :
          Constructed(IN_netloc, q, <<>>, Bytes(<<>>))

NextCanon ==
    \/ ReadCanonicalHeaders
    \/ ReadSignedHeaders
    \/ ReadStr
    \/ ReadHashed

SpecCanon == InitCanon /\ [][NextCanon]_vars

(* Construction: a request built from any uri and any header dict, whose
   canonical texts are then read *)
InitCtor ==
    \E uri \in UriInputs, h \in HostHeaderInputs :
        ConstructedFrom(uri, h)

NextCtor ==
    \/ ReadCanonicalHeaders
    \/ ReadSignedHeaders
    \/ ReadStr

SpecCtor == InitCtor /\ [][NextCtor]_vars

(* Signing side by side: two threads, each signing a request object of its
   own with the same Credentials object, their statements interleaved in any
   order while time passes *)
InitConc ==
    \E kind \in [Threads -> {"headers", "query"}], in \in [Threads -> ConcInputs] :
        LET parts == [netloc |-> IN_netloc, path |-> IN_path]
            made == [t \in Threads |->
                        CanonicalRequest_init(IN_method, parts, in[t][1], in[t][2],
                                              Bytes(<<>>)).request]
        IN  /\ ctor = [t \in Threads |->
                          [method |-> IN_method, parts |-> parts, query |-> in[t][1],
                           headers |-> in[t][2], payload |-> Bytes(<<>>)]]
            /\ calls = [t \in Threads |-> call_begin(kind[t], made[t], 60)]
            /\ credentials = Credentials_init(IN_key_id, IN_key_secret, IN_region, IN_service)
            /\ clock = 0
            /\ accepted = <<>>
            /\ op = "init"
            /\ arg = <<>>
            /\ ret = None
            /\ request = made[1]
            /\ pre = made[1]

NextConc ==
    \/ Tick
    \/ CallStamp
    \/ CallDatetime
    \/ CallScope
    \/ CallKey
    \/ CallSignHeaders
    \/ CallSignQuery

SpecConc == InitConc /\ [][NextConc]_vars

----------------------------------------------------------------------------
(* Helpers of the properties *)

\* s begins with p
StartsWith(s, p) == Len(s) >= Len(p) /\ SubSeq(s, 1, Len(p)) = p

\* sub occurs in s
Contains(s, sub) ==
    \E i \in 1..(Len(s) - Len(sub) + 1) : SubSeq(s, i, i + Len(sub) - 1) = sub

\* the keys of a list of pairs
Keys(pairs) == [i \in 1..Len(pairs) |-> pairs[i][1]]

\* some stored header of req is named x-amz-date, whatever its letter case
HasDateHeader(req) ==
    \E i \in 1..Len(req.headers) : lower(req.headers[i][1]) = STR_x_amz_date

\* the value of the header of req whose lower-cased name is x-amz-date
DateHeaderValue(req) ==
    req.headers[CHOOSE i \in 1..Len(req.headers) :
                    lower(req.headers[i][1]) = STR_x_amz_date][2]

\* the value of the last X-Amz-Date pair of the query of req
DateParamValue(req) ==
    req.query[CHOOSE i \in 1..Len(req.query) :
                  /\ req.query[i][1] = STR_X_Amz_Date
                  /\ \A j \in 1..Len(req.query) :
                        req.query[j][1] = STR_X_Amz_Date => j <= i][2]

\* s is the stamp YYYYMMDDTHHMMSSZ of a time the clock has shown so far
IsClockStamp(s) == \E c \in 0..clock : s = strftime_stamp(Now(c))

\* the last operation was a signing call that returned
Signed(name) == op = name /\ ret.kind = "return"

----------------------------------------------------------------------------
(* C1: sign_via_headers returns a list that ends with the Authorization
   pair, preceded by exactly one (X-Amz-Date, stamp) pair if and only if the
   request had no x-amz-date header, in any letter case, before the call; so
   it has 2 elements when the timestamp was newly added and 1 otherwise.  The
   Authorization value names the access key id, the scope dated with the day
   of the request's timestamp, and signed headers that include x-amz-date. *)
C1_SignViaHeadersResult ==
    op = "sign_via_headers" =>
        /\ ret.kind = "return"
        /\ LET out == ret.value
               stamp == DateHeaderValue(request)
               expected ==
                   STR_AWS4_HMAC_SHA256 \o SP \o STR_Credential_eq
                       \o credentials.key_id \o SLASH \o SubSeq(stamp, 1, 8)
                       \o SLASH \o credentials.scope.region
                       \o SLASH \o credentials.scope.service
                       \o SLASH \o STR_aws4_request \o COMMA \o SP
                       \o STR_SignedHeaders_eq \o signed_headers(request)
                       \o COMMA \o SP \o STR_Signature_eq
           IN  /\ Len(out) = IF HasDateHeader(pre) THEN 1 ELSE 2
               /\ out[Len(out)][1] = STR_Authorization
               /\ ~HasDateHeader(pre) =>
                      /\ out[1] = <<STR_X_Amz_Date, stamp>>
                      /\ IsClockStamp(stamp)
               /\ (\E i \in 1..Len(ctor.headers) :
                       lower(ctor.headers[i][1]) = STR_x_amz_date) => Len(out) = 1
               /\ StartsWith(out[Len(out)][2], expected)
               /\ Len(out[Len(out)][2]) > Len(expected)
               /\ Contains(SEMI \o signed_headers(request) \o SEMI,
                           SEMI \o STR_x_amz_date \o SEMI)

\* sign_via_headers has stamped a request that had no timestamp header
C1_Witness ==
    /\ Signed("sign_via_headers")
    /\ Len(ret.value) = 2
    /\ ~HasDateHeader(pre)

(* C2: sign_via_query_string returns, whether or not the request already
   carried an X-Amz-Date query parameter, exactly X-Amz-Algorithm,
   X-Amz-Credential, X-Amz-Date, X-Amz-Expires, X-Amz-SignedHeaders,
   X-Amz-Signature, in that order *)
C2_FullParameterList ==
    op = "sign_via_query_string" =>
        /\ ret.kind = "return"
        /\ Keys(ret.value) =
               << STR_X_Amz_Algorithm, STR_X_Amz_Credential, STR_X_Amz_Date,
                  STR_X_Amz_Expires, STR_X_Amz_SignedHeaders, STR_X_Amz_Signature >>

(* C3: after sign_via_query_string the query holds X-Amz-Algorithm then
   X-Amz-Credential immediately before the X-Amz-Date parameter and
   X-Amz-Expires then X-Amz-SignedHeaders immediately after it; the signature
   is computed over this query, and X-Amz-Signature is not part of it *)
C3_AugmentedQueryAroundDate ==
    op = "sign_via_query_string" =>
        /\ ret.kind = "return"
        /\ \E i \in 3..(Len(request.query) - 2) :
              /\ request.query[i][1] = STR_X_Amz_Date
              /\ request.query[i - 2][1] = STR_X_Amz_Algorithm
              /\ request.query[i - 1][1] = STR_X_Amz_Credential
              /\ request.query[i + 1][1] = STR_X_Amz_Expires
              /\ request.query[i + 2][1] = STR_X_Amz_SignedHeaders
        /\ \A i \in 1..Len(request.query) : request.query[i][1] /= STR_X_Amz_Signature
        /\ Contains(ret.value[Len(ret.value)][2], sha256_hexdigest(CanonicalRequest_str(request)))

(* C4: each signing operation leaves the Credentials and every part of the
   request unchanged, except that it inserts the timestamp (the x-amz-date
   header, respectively the X-Amz-Date query parameter) when it was absent *)
C4_SigningFrame ==
    /\ credentials = Credentials_init(IN_key_id, IN_key_secret, IN_region, IN_service)
    /\ op = "sign_via_headers" =>
          \/ request = pre
          \/ /\ ~HasDateHeader(pre)
             /\ \E c \in 0..clock :
                   request = [pre EXCEPT !.headers =
                                  Append(pre.headers, <<STR_x_amz_date, strftime_stamp(Now(c))>>)]
    /\ op = "sign_via_query_string" =>
          \/ request = pre
          \/ /\ ~has_date_param(pre)
             /\ \E c \in 0..clock :
                   request = [pre EXCEPT !.query =
                                  Append(pre.query, <<STR_X_Amz_Date, strftime_stamp(Now(c))>>)]

(* C8: set_date_header and set_date_param are idempotent: when the timestamp
   is absent at that location the call stores the current UTC time as
   YYYYMMDDTHHMMSSZ and returns it; when it is present the call changes
   nothing and returns None; so after a first call every later call, at any
   later time, is a no-op *)
C8_EnsureTimestampIdempotent ==
    /\ op = "set_date_header" =>
          /\ IF HasDateHeader(pre)
             THEN request = pre /\ ret = None
             ELSE /\ ret.kind = "return" /\ ~ret.isNone
                  /\ IsClockStamp(ret.value)
                  /\ Len(ret.value) = 16
                  /\ request = [pre EXCEPT !.headers =
                                    Append(pre.headers, <<STR_x_amz_date, ret.value>>)]
          /\ \A c \in clock..(MaxClock + 1) :
                set_date_header(request, Now(c)) = [request |-> request, ret |-> None]
    /\ op = "set_date_param" =>
          /\ IF \E i \in 1..Len(pre.query) : pre.query[i][1] = STR_X_Amz_Date
             THEN request = pre /\ ret = None
             ELSE /\ ret.kind = "return" /\ ~ret.isNone
                  /\ IsClockStamp(ret.value)
                  /\ Len(ret.value) = 16
                  /\ request = [pre EXCEPT !.query =
                                    Append(pre.query, <<STR_X_Amz_Date, ret.value>>)]
          /\ \A c \in clock..(MaxClock + 1) :
                set_date_param(request, Now(c)) = [request |-> request, ret |-> None]

\* a later call of set_date_header, after the clock has advanced, found the
\* stamp of an earlier time and did nothing
C8_Witness ==
    /\ op = "set_date_header"
    /\ ret = None
    /\ clock > 0
    /\ DateHeaderValue(request) = strftime_stamp(Now(0))

(* C10: reading CanonicalRequest.datetime yields the value of the x-amz-date
   header when one exists, otherwise the value of the X-Amz-Date query
   parameter (the last one given), and fails with 'No datetime is set in the
   request.' exactly when neither exists; the read never modifies the
   request; and in sign_via_headers and sign_via_query_string this error
   cannot occur *)
C10_DatetimeRead ==
    /\ op = "datetime" =>
          /\ request = pre
          /\ IF HasDateHeader(request)
             THEN ret.kind = "return" /\ strftime_stamp(ret.value) = DateHeaderValue(request)
             ELSE IF \E i \in 1..Len(request.query) : request.query[i][1] = STR_X_Amz_Date
             THEN ret.kind = "return" /\ strftime_stamp(ret.value) = DateParamValue(request)
             ELSE ret = Raise("ValueError", "No datetime is set in the request.")
    /\ op \in {"sign_via_headers", "sign_via_query_string"} => ret.kind = "return"

\* datetime was read from a request without the header, and came from the
\* second of two X-Amz-Date query parameters
C10_Witness ==
    /\ op = "datetime"
    /\ ret.kind = "return"
    /\ ~HasDateHeader(request)
    /\ Len(request.query) >= 2
    /\ request.query[1][1] = STR_X_Amz_Date
    /\ request.query[2][1] = STR_X_Amz_Date
    /\ request.query[1][2] /= request.query[2][2]

(* C9: after any sequence of payload assignments hashed_payload is the
   SHA-256 digest of the last accepted bytes payload (the empty-payload
   constant when that payload is empty); assigning text fails with a
   TypeError and leaves hashed_payload unchanged; reading the payload always
   fails, and the request keeps no raw payload *)
C9_PayloadDigest ==
    /\ request.hashed_payload = sha256_hexdigest(accepted)
    /\ accepted = <<>> <=> request.hashed_payload = SHA256_EMPTY
    /\ DOMAIN request = {"method", "parts", "query", "headers", "hashed_payload"}
    /\ op = "payload.setter" =>
          IF arg.type = "bytes"
          THEN ret = None /\ accepted = arg.data
          ELSE /\ ret.kind = "raise" /\ ret.exc = "TypeError"
               /\ request = pre
    /\ op = "payload.getter" =>
          /\ ret.kind = "raise" /\ ret.exc = "NotImplementedError"
          /\ request = pre

\* a text payload was refused after the bytes b'foo' had been accepted
C9_Witness ==
    /\ op = "payload.setter"
    /\ arg.type = "str"
    /\ ret.kind = "raise"
    /\ accepted = IN_foo

----------------------------------------------------------------------------
(* Helpers of the canonicalization properties *)

\* the orderings of the list xs
Orderings(xs) ==
    {[i \in 1..Len(xs) |-> xs[f[i]]] :
        f \in {g \in [1..Len(xs) -> 1..Len(xs)] :
                  \A i, j \in 1..Len(xs) : i /= j => g[i] /= g[j]}}

\* the request, had it been built with the query q
WithQuery(q) == [request EXCEPT !.query = q]

\* the (lower-cased name, value) pairs a header dict holds
LoweredPairs(h) == {<<lower(h[i][1]), h[i][2]>> : i \in 1..Len(h)}

\* no name is given twice, in two letter cases, with two values
Unambiguous(h) ==
    \A i, j \in 1..Len(h) : lower(h[i][1]) = lower(h[j][1]) => h[i][2] = h[j][2]

\* the request built from the header dict h
BuiltFrom(h) == CanonicalRequest_init(IN_method, ctor.parts, <<>>, h, Bytes(<<>>)).request

\* the names of the lines of a canonical_headers text are lower case and
\* strictly ascending: checked on the stored headers, whose sorted names
\* must be what the text starts its lines with
RECURSIVE LinesOf(_, _)
LinesOf(text, acc) ==
    IF text = <<>> THEN <<>>
    ELSE IF text[1] = 10 THEN <<acc>> \o LinesOf(Tail(text), <<>>)
    ELSE LinesOf(Tail(text), Append(acc, text[1]))

\* the part of a line before its first colon
RECURSIVE NameOf(_)
NameOf(line) ==
    IF line = <<>> \/ line[1] = 58 THEN <<>> ELSE <<line[1]>> \o NameOf(Tail(line))

LoweredAndSorted(text) ==
    LET names == [i \in 1..Len(LinesOf(text, <<>>)) |-> NameOf(LinesOf(text, <<>>)[i])]
    IN  /\ \A i \in 1..Len(names) : names[i] = lower(names[i])
        /\ \A i \in 1..(Len(names) - 1) : StrLess(names[i], names[i + 1])

\* v without its leading and trailing whitespace, by positions
Trimmed(v) ==
    LET keep == {i \in 1..Len(v) : ~IsSpace(v[i])}
    IN  IF keep = {} THEN <<>>
        ELSE SubSeq(v, CHOOSE i \in keep : \A j \in keep : i <= j,
                       CHOOSE i \in keep : \A j \in keep : j <= i)

\* t without the positions picked out by drop
RECURSIVE Without(_, _, _)
Without(t, drop, i) ==
    IF i > Len(t) THEN <<>>
    ELSE (IF i \in drop THEN <<>> ELSE <<t[i]>>) \o Without(t, drop, i + 1)

\* t with every run of spaces (code 32) cut down to its first space
SpacesSqueezed(t) ==
    Without(t, {i \in 2..Len(t) : t[i] = 32 /\ t[i - 1] = 32}, 1)

\* t with every run of whitespace replaced by one space
WhitespaceSqueezed(t) ==
    LET u == [i \in 1..Len(t) |-> IF IsSpace(t[i]) THEN 32 ELSE t[i]]
    IN  SpacesSqueezed(u)

\* t begins and ends with a double quote (and these are two characters)
QuoteDelimited(t) == Len(t) >= 2 /\ t[1] = 34 /\ t[Len(t)] = 34

\* t is one double-quoted token: quote-delimited, with no quote in between
QuotedToken(t) == QuoteDelimited(t) /\ \A i \in 2..(Len(t) - 1) : t[i] /= 34

\* the canonical_headers text of a request with the single header name: value
OneLine(name, value) == lower(name) \o COLON \o value \o NL

----------------------------------------------------------------------------
(* C5: the query line of the canonical request lists the query pairs sorted
   by encoded key and then by value, so two requests that differ only in the
   order of their query pairs have the same canonical text and the same hash *)
C5_QueryOrderInvariant ==
    /\ op = "__str__" =>
          \A q \in Orderings(request.query) :
              CanonicalRequest_str(WithQuery(q)) = ret.value
    /\ op = "hashed" =>
          \A q \in Orderings(request.query) : hashed(WithQuery(q)) = ret.value

(* C6: canonical_headers and signed_headers are invariant to header
   insertion order and header-name letter case: two header inputs that hold
   the same name/value pairs up to name case and ordering, also when they
   give one name in two letter cases, produce the same canonical_headers,
   with names lower-cased and sorted, and the same signed_headers *)
C6_HeaderOrderCaseInvariant ==
    \A h \in OrderCaseInputs :
        LoweredPairs(h) = LoweredPairs(ctor.headers) =>
            /\ op = "canonical_headers" =>
                  /\ ret.value = canonical_headers(BuiltFrom(h))
                  /\ LoweredAndSorted(ret.value)
            /\ op = "signed_headers" => ret.value = signed_headers(BuiltFrom(h))

(* C6, amended: the same, for header inputs that give no name twice, in two
   letter cases, with two different values (of such a name the value set
   last is the one kept); signed_headers is the same in every case *)
C6_Amended ==
    \A h \in OrderCaseInputs :
        LoweredPairs(h) = LoweredPairs(ctor.headers) =>
            /\ (op = "canonical_headers" /\ Unambiguous(ctor.headers)) =>
                  ret.value = canonical_headers(BuiltFrom(h))
            /\ op = "canonical_headers" => LoweredAndSorted(ret.value)
            /\ op = "signed_headers" => ret.value = signed_headers(BuiltFrom(h))

\* canonical_headers was read from a request built from Host and ab, for
\* which an input with the other order and another letter case exists
C6_Witness ==
    /\ op = "canonical_headers"
    /\ Len(ctor.headers) = 2
    /\ ctor.headers[1][1] = IN_Host
    /\ ctor.headers[2][1] = IN_Ab
    /\ \E h \in OrderCaseInputs :
          /\ LoweredPairs(h) = LoweredPairs(ctor.headers)
          /\ h[1][1] = IN_Ab
          /\ h[2][1] = STR_host

(* C7: in canonical_headers every header value is trimmed of leading and
   trailing whitespace; of a value that is not a single double-quoted token
   every interior run of whitespace is collapsed to one space; of a value
   that is a single double-quoted token the interior is preserved *)
C7_ValueWhitespace ==
    (op = "canonical_headers" /\ Len(ctor.headers) = 1) =>
        LET t == Trimmed(ctor.headers[1][2])
        IN  ret.value = OneLine(ctor.headers[1][1],
                                IF QuotedToken(t) THEN t ELSE WhitespaceSqueezed(t))

(* C7, amended: every header value is trimmed of leading and trailing
   whitespace; a trimmed value of two or more characters that begins and
   ends with a double quote is kept as it is; of any other value every run
   of space characters is collapsed to one space, and other whitespace (a
   tab) is kept *)
C7_Amended ==
    (op = "canonical_headers" /\ Len(ctor.headers) = 1) =>
        LET t == Trimmed(ctor.headers[1][2])
        IN  ret.value = OneLine(ctor.headers[1][1],
                                IF QuoteDelimited(t) THEN t ELSE SpacesSqueezed(t))

\* canonical_headers was read of the value ' a  a ': to trim, and a run of
\* two spaces to collapse
C7_Witness ==
    /\ op = "canonical_headers"
    /\ ctor.headers = << <<IN_Mh, <<32, 97, 32, 32, 97>> >> >>
    /\ ret.value = OneLine(IN_Mh, <<97, 32, 97>>)

----------------------------------------------------------------------------
(* C13: after every successful sign_via_query_string the timestamp in the
   string to sign and the date in the X-Amz-Credential scope are those of the
   X-Amz-Date query parameter of the request's signed query, also for a
   request that carries an x-amz-date header with another value *)
C13_PresignedSelfConsistent ==
    Signed("sign_via_query_string") =>
        \E i \in 1..Len(request.query) :
            /\ request.query[i][1] = STR_X_Amz_Date
            /\ LET stamp == request.query[i][2]
                   dated == SubSeq(stamp, 1, 8) \o SLASH \o credentials.scope.region
                                \o SLASH \o credentials.scope.service
                                \o SLASH \o STR_aws4_request
               IN  /\ ret.value[2] = <<STR_X_Amz_Credential,
                                       credentials.key_id \o SLASH \o dated>>
                   /\ Contains(ret.value[Len(ret.value)][2],
                               STR_AWS4_HMAC_SHA256 \o NL \o stamp \o NL \o dated \o NL)

----------------------------------------------------------------------------
\* the places of the host header among the pairs, its name in any letter case
HostPlaces(pairs) == {i \in 1..Len(pairs) : lower(pairs[i][1]) = STR_host}

\* the greatest number of a non-empty set of numbers
Last(S) == CHOOSE i \in S : \A j \in S : j <= i

(* C12: a request constructed from a uri has exactly one host header, holding
   the uri's host, when the uri has a host and the supplied headers have no
   host header in any letter case; a supplied host header is kept with its
   value, whatever the uri (of a dict that gives it in two letter cases, the
   later value); and with no host in the uri and none supplied the request
   has no host header.  The other headers are the supplied ones *)
C12_ImplicitHost ==
    LET given == HostPlaces(ctor.headers)
        host == ctor.parts.netloc
        now == HostPlaces(request.headers)
    IN  /\ ctor.parts = urlsplit(ctor.uri)
        /\ given /= {} =>
              /\ Cardinality(now) = 1
              /\ Headers_getitem(request.headers, STR_host) = ctor.headers[Last(given)][2]
              /\ request.headers = Headers_init(ctor.headers)
        /\ (given = {} /\ host /= <<>>) =>
              request.headers = Append(Headers_init(ctor.headers), <<STR_host, host>>)
        /\ (given = {} /\ host = <<>>) =>
              /\ now = {}
              /\ request.headers = Headers_init(ctor.headers)

\* a request was built from https://h.com/ and a dict that gives Host: a,
\* and its one host header holds a; and its signed headers were read
C12_Witness ==
    /\ ctor.uri = URI_https_host
    /\ ctor.parts.netloc = IN_netloc
    /\ ctor.headers = << <<IN_Host, IN_a>> >>
    /\ request.headers = << <<STR_host, IN_a>> >>
    /\ op = "signed_headers"
    /\ ret.value = STR_host

----------------------------------------------------------------------------
\* the request of thread t as it was constructed
MadeFor(t) ==
    CanonicalRequest_init(IN_method, ctor[t].parts, ctor[t].query, ctor[t].headers,
                          ctor[t].payload).request

\* the call of thread t run alone, in one piece, at the time it stamped
Alone(t) ==
    IF calls[t].kind = "headers"
    THEN sign_via_headers(Credentials_init(IN_key_id, IN_key_secret, IN_region, IN_service),
                          MadeFor(t), Now(calls[t].at))
    ELSE sign_via_query_string(Credentials_init(IN_key_id, IN_key_secret, IN_region, IN_service),
                               MadeFor(t), calls[t].expires, Now(calls[t].at))

\* the statements that come after the one named pc
After(pc) ==
    CASE pc = "stamp" -> {"datetime", "scope", "key", "sign", "done"}
      [] pc = "datetime" -> {"scope", "key", "sign", "done"}
      [] pc = "scope" -> {"key", "sign", "done"}
      [] pc = "key" -> {"sign", "done"}
      [] pc = "sign" -> {"done"}

(* C11: while two threads sign two request objects with one Credentials
   object, their statements interleaved in any order, the Credentials fields
   never change; the scope a call holds is dated with the timestamp of its
   own request and its key is the key of that scope; and a finished call has
   returned the pairs, and left its request as, the same call run alone *)
C11_NoSharedState ==
    /\ credentials = Credentials_init(IN_key_id, IN_key_secret, IN_region, IN_service)
    /\ \A t \in Threads :
          LET call == calls[t]
              own == datetime(call.request)
          IN  /\ call.pc \in After("scope") =>
                    /\ own.kind = "return"
                    /\ call.scope.value =
                          [region |-> IN_region, service |-> IN_service, date |-> own.value]
              /\ call.pc \in After("key") =>
                    call.key.value = SigningKey(IN_key_secret, call.scope.value)
              /\ call.pc = "done" =>
                    /\ call.ret = Alone(t).ret
                    /\ call.request = Alone(t).request

\* both calls are finished, one through headers and one through the query,
\* they stamped their requests on two different days and each one's scope
\* has the date of its own stamp; the other call was at work between the
\* first call's stamp and its signature
C11_Witness ==
    /\ calls[1].pc = "done" /\ calls[2].pc = "done"
    /\ calls[1].kind = "headers" /\ calls[2].kind = "query"
    /\ calls[1].ret.kind = "return" /\ calls[2].ret.kind = "return"
    /\ ~calls[1].datetime_str.isNone /\ ~calls[2].datetime_str.isNone
    /\ calls[1].at < calls[2].at
    /\ calls[1].scope.value.date /= calls[2].scope.value.date
    /\ op = "sign_via_headers" /\ arg = 1

====
